---- MODULE Spec2Model ----
(***************************************************************************)
(* AsyncDialog<T> of native-dialog (src/lib.rs) with the worker closures   *)
(* built by message_box_async (src/impl/win/message.rs) and                *)
(* open_dialog_async (src/impl/win/file.rs).                               *)
(*                                                                         *)
(* One AsyncDialog, its consumer (AsyncDialog is not Sync: RefCell and     *)
(* Cell fields, so its &self methods never run concurrently) and the one   *)
(* worker thread its spawn closure may start.  The consumer may call its   *)
(* methods any number of times, in any order.                              *)
(***************************************************************************)
EXTENDS Naturals, Sequences, FiniteSets

VARIABLES
    kind,       \* which Dialog impl built the task (selects map_result)
    spawn,      \* AsyncDialog.spawn: TRUE = Some(closure), FALSE = None
    is_future,  \* AsyncDialog.is_future
    chan,       \* messages buffered in the bounded(1) channel
    senderAt,   \* owner of the Sender: "closure", "worker" or "dropped"
    alive,      \* the AsyncDialog (and so the Receiver) has not been dropped
    wpc,        \* position of the worker thread
    wwaker,     \* the worker closure was given Some(waker)
    res,        \* `res` of the worker closure (NoVal before the body returns)
    cpc,        \* position of the consumer: "idle", "recv", "pollrecv", "dropped"
    woken,      \* the scheduler's wake flag: wake() called since the last poll
    lastOp,     \* the consumer's last completed call
    lastRet,    \* what that call returned
    spawnCount, \* history: invocations of the spawn closure (threads spawned)
    wakeCount,  \* history: invocations of Waker::wake
    sentCount,  \* history: successful sends
    sendErr,    \* history: the send failed (receiver gone) and was discarded
    showCalled, \* history: show_dialog has been called
    pollCalled, \* history: poll has been called
    takenBy     \* history: the call that received the value ("none" before)

vars == <<kind, spawn, is_future, chan, senderAt, alive, wpc, wwaker, res, cpc,
          woken, lastOp, lastRet, spawnCount, wakeCount, sentCount, sendErr,
          showCalled, pollCalled, takenBy>>

taskVars == <<spawn, is_future>>
workerVars == <<wpc, wwaker, res>>
histVars == <<spawnCount, wakeCount, sentCount, sendErr, showCalled, pollCalled, takenBy>>

\* Capacity of crossbeam_channel::bounded(1).
Cap == 1

\* The Dialog implementations that build an AsyncDialog.
Kinds == {"MessageAlert", "MessageConfirm", "OpenSingleFile", "OpenMultipleFile", "OpenSingleDir"}

MessageKinds == {"MessageAlert", "MessageConfirm"}

NoVal == <<"-", "-">>

\* What message_box can return: Ok(x == IDYES) or Err(IoFailure).
MessageBoxResults == {<<"Ok", "true">>, <<"Ok", "false">>, <<"Err", "IoFailure">>}

\* What open_dialog can return: Ok(Some(t)), Ok(None) or Err(ImplementationError).
OpenDialogResults == {<<"Ok", "Some(result)">>, <<"Ok", "None">>, <<"Err", "ImplementationError">>}

\* The results the blocking native call of a task of kind k can produce.
RawResults(k) == IF k \in MessageKinds THEN MessageBoxResults ELSE OpenDialogResults

\* The map_result closure each create_async passes.
MapResult(k, r) ==
    CASE k = "MessageAlert" ->
            IF r[1] = "Ok" THEN <<"Ok", "()">> ELSE r
      [] k = "MessageConfirm" -> r
      [] k \in {"OpenSingleFile", "OpenSingleDir"} ->
            IF r = <<"Ok", "Some(result)">> THEN <<"Ok", "Some(path)">> ELSE r
      [] k = "OpenMultipleFile" ->
            IF r = <<"Ok", "Some(result)">> THEN <<"Ok", "paths">>
            ELSE IF r = <<"Ok", "None">> THEN <<"Ok", "vec![]">>
            ELSE r

Ret(t, v) == [tag |-> t, val |-> v]

----
\* crossbeam_channel::Receiver

\* Receiver::try_recv on buffer ch; connected = some Sender is still alive.
ChanTryRecv(ch, connected) ==
    IF Len(ch) > 0 THEN Ret("Ok", Head(ch))
    ELSE IF connected THEN Ret("Empty", NoVal)
    ELSE Ret("Disconnected", NoVal)

\* Receiver::recv returns once a message is buffered or every Sender is gone.
ChanRecvReady(ch, connected) == Len(ch) > 0 \/ ~connected

ChanRecv(ch) ==
    IF Len(ch) > 0 THEN Ret("Ok", Head(ch)) ELSE Ret("Disconnected", NoVal)

ChanTake(ch) == IF Len(ch) > 0 THEN Tail(ch) ELSE ch

Connected == senderAt # "dropped"

----
\* AsyncDialog

\* Mutant of Init: the constructor runs the closure instead of storing it.
InitEager ==
    /\ kind \in Kinds
    /\ spawn = FALSE
    /\ is_future = TRUE
    /\ chan = <<>>
    /\ senderAt = "worker"
    /\ alive = TRUE
    /\ wpc = "body"
    /\ wwaker = FALSE
    /\ res = NoVal
    /\ cpc = "idle"
    /\ woken = FALSE
    /\ lastOp = "none"
    /\ lastRet = Ret("None", NoVal)
    /\ spawnCount = 1
    /\ wakeCount = 0
    /\ sentCount = 0
    /\ sendErr = FALSE
    /\ showCalled = FALSE
    /\ pollCalled = FALSE
    /\ takenBy = "none"

\* AsyncDialog::new as called by message_box_async / open_dialog_async
Init ==
    /\ kind \in Kinds
    /\ spawn = TRUE
    /\ is_future = TRUE
    /\ chan = <<>>
    /\ senderAt = "closure"
    /\ alive = TRUE
    /\ wpc = "none"
    /\ wwaker = FALSE
    /\ res = NoVal
    /\ cpc = "idle"
    /\ woken = FALSE
    /\ lastOp = "none"
    /\ lastRet = Ret("None", NoVal)
    /\ spawnCount = 0
    /\ wakeCount = 0
    /\ sentCount = 0
    /\ sendErr = FALSE
    /\ showCalled = FALSE
    /\ pollCalled = FALSE
    /\ takenBy = "none"

\* The `spawn` closure: thread::spawn of the worker, which owns sender and waker.
Dispatch(waker) ==
    /\ wpc' = "body"
    /\ wwaker' = waker
    /\ res' = NoVal
    /\ senderAt' = "worker"
    /\ spawnCount' = spawnCount + 1

\* Mutant of _show_dialog: the closure is run but left in place (borrow instead of take).
ShowDialogNoTake(waker) ==
    IF spawn
    THEN spawn' = TRUE /\ Dispatch(waker)
    ELSE UNCHANGED <<spawn, wpc, wwaker, res, senderAt, spawnCount>>

\* _show_dialog: take the closure and run it; its return value is the old `spawn`.
_show_dialog(waker) ==
    IF spawn
    THEN spawn' = FALSE /\ Dispatch(waker)
    ELSE UNCHANGED <<spawn, wpc, wwaker, res, senderAt, spawnCount>>

\* Mutant of TryRecvMap: the two error arms are swapped.
TryRecvMapSwapped(r) ==
    CASE r.tag = "Ok" -> Ret("Value", r.val)
      [] r.tag = "Empty" -> Ret("Disconnected", NoVal)
      [] r.tag = "Disconnected" -> Ret("Empty", NoVal)

\* the map_err of try_recv
TryRecvMap(r) ==
    CASE r.tag = "Ok" -> Ret("Value", r.val)
      [] r.tag = "Empty" -> Ret("Empty", NoVal)
      [] r.tag = "Disconnected" -> Ret("Disconnected", NoVal)

\* Mutant of RecvMap: an Err the body produced is flattened into Disconnected.
RecvMapFlatten(r) ==
    IF r.tag = "Ok" /\ r.val[1] = "Ok" THEN Ret("Value", r.val) ELSE Ret("Disconnected", NoVal)

\* the map_err of recv
RecvMap(r) ==
    IF r.tag = "Ok" THEN Ret("Value", r.val) ELSE Ret("Disconnected", NoVal)

\* Mutant of TryRecv: try_recv starts the task like the other entry points.
TryRecvDispatching ==
    /\ cpc = "idle"
    /\ _show_dialog(FALSE)
    /\ LET r == ChanTryRecv(chan, Connected) IN
        /\ lastRet' = TryRecvMap(r)
        /\ chan' = IF r.tag = "Ok" THEN ChanTake(chan) ELSE chan
        /\ takenBy' = IF r.tag = "Ok" THEN "try_recv" ELSE takenBy
    /\ lastOp' = "try_recv"
    /\ UNCHANGED <<kind, is_future, alive, cpc, woken,
                   wakeCount, sentCount, sendErr, showCalled, pollCalled>>

\* try_recv
TryRecv ==
    /\ cpc = "idle"
    /\ LET r == ChanTryRecv(chan, Connected) IN
        /\ lastRet' = TryRecvMap(r)
        /\ chan' = IF r.tag = "Ok" THEN ChanTake(chan) ELSE chan
        /\ takenBy' = IF r.tag = "Ok" THEN "try_recv" ELSE takenBy
    /\ lastOp' = "try_recv"
    /\ UNCHANGED <<kind, taskVars, senderAt, alive, workerVars, cpc, woken,
                   spawnCount, wakeCount, sentCount, sendErr, showCalled, pollCalled>>

\* Mutant of RecvCall: recv starts the task like the other entry points.
RecvCallDispatching ==
    /\ cpc = "idle"
    /\ cpc' = "recv"
    /\ _show_dialog(FALSE)
    /\ UNCHANGED <<kind, is_future, chan, alive, woken, lastOp, lastRet,
                   wakeCount, sentCount, sendErr, showCalled, pollCalled, takenBy>>

\* recv is entered and blocks in Receiver::recv
RecvCall ==
    /\ cpc = "idle"
    /\ cpc' = "recv"
    /\ UNCHANGED <<kind, taskVars, chan, senderAt, alive, workerVars, woken,
                   lastOp, lastRet, histVars>>

\* Mutant of RecvReturn: the message is read but left in the channel.
RecvReturnPeek ==
    /\ cpc = "recv"
    /\ ChanRecvReady(chan, Connected)
    /\ LET r == ChanRecv(chan) IN
        /\ lastRet' = RecvMap(r)
        /\ takenBy' = IF r.tag = "Ok" THEN "recv" ELSE takenBy
    /\ lastOp' = "recv"
    /\ cpc' = "idle"
    /\ UNCHANGED <<kind, taskVars, chan, senderAt, alive, workerVars, woken,
                   spawnCount, wakeCount, sentCount, sendErr, showCalled, pollCalled>>

\* recv returns
RecvReturn ==
    /\ cpc = "recv"
    /\ ChanRecvReady(chan, Connected)
    /\ LET r == ChanRecv(chan) IN
        /\ lastRet' = RecvMap(r)
        /\ chan' = ChanTake(chan)
        /\ takenBy' = IF r.tag = "Ok" THEN "recv" ELSE takenBy
    /\ lastOp' = "recv"
    /\ cpc' = "idle"
    /\ UNCHANGED <<kind, taskVars, senderAt, alive, workerVars, woken,
                   spawnCount, wakeCount, sentCount, sendErr, showCalled, pollCalled>>

\* Mutant of ShowDialog: is_future is cleared only by the call that spawned.
ShowDialogFlagOnSpawn ==
    /\ cpc = "idle"
    /\ _show_dialog(FALSE)
    /\ is_future' = IF spawn THEN FALSE ELSE is_future
    /\ showCalled' = TRUE
    /\ lastOp' = "show_dialog"
    /\ lastRet' = Ret("Unit", NoVal)
    /\ UNCHANGED <<kind, chan, alive, cpc, woken, wakeCount, sentCount, sendErr,
                   pollCalled, takenBy>>

\* Mutant of ShowDialog: is_future.set(false) is left out.
ShowDialogKeepsFuture ==
    /\ cpc = "idle"
    /\ _show_dialog(FALSE)
    /\ showCalled' = TRUE
    /\ lastOp' = "show_dialog"
    /\ lastRet' = Ret("Unit", NoVal)
    /\ UNCHANGED <<kind, is_future, chan, alive, cpc, woken, wakeCount, sentCount,
                   sendErr, pollCalled, takenBy>>

\* show_dialog
ShowDialog ==
    /\ cpc = "idle"
    /\ _show_dialog(FALSE)
    /\ is_future' = FALSE
    /\ showCalled' = TRUE
    /\ lastOp' = "show_dialog"
    /\ lastRet' = Ret("Unit", NoVal)
    /\ UNCHANGED <<kind, chan, alive, cpc, woken, wakeCount, sentCount, sendErr,
                   pollCalled, takenBy>>

\* Mutant of Poll: after dispatch an empty, connected channel gives Pending (try_recv
\* in place of the blocking recv).
PollNonBlocking ==
    /\ cpc = "idle"
    /\ pollCalled' = TRUE
    /\ woken' = FALSE
    /\ IF ~is_future
       THEN /\ lastOp' = "poll"
            /\ lastRet' = Ret("Pending", NoVal)
            /\ UNCHANGED <<spawn, wpc, wwaker, res, senderAt, spawnCount, cpc>>
       ELSE /\ _show_dialog(TRUE)
            /\ IF spawn \/ (Len(chan) = 0 /\ Connected)
               THEN /\ lastOp' = "poll"
                    /\ lastRet' = Ret("Pending", NoVal)
                    /\ cpc' = cpc
               ELSE /\ cpc' = "pollrecv"
                    /\ UNCHANGED <<lastOp, lastRet>>
    /\ UNCHANGED <<kind, is_future, chan, alive, wakeCount, sentCount, sendErr,
                   showCalled, takenBy>>

\* Mutant of Poll: an ineligible poll drains the channel before returning Pending.
PollDrains ==
    /\ cpc = "idle"
    /\ pollCalled' = TRUE
    /\ woken' = FALSE
    /\ IF ~is_future
       THEN /\ lastOp' = "poll"
            /\ lastRet' = Ret("Pending", NoVal)
            /\ chan' = ChanTake(chan)
            /\ UNCHANGED <<spawn, wpc, wwaker, res, senderAt, spawnCount, cpc>>
       ELSE /\ _show_dialog(TRUE)
            /\ chan' = chan
            /\ IF spawn
               THEN /\ lastOp' = "poll"
                    /\ lastRet' = Ret("Pending", NoVal)
                    /\ cpc' = cpc
               ELSE /\ cpc' = "pollrecv"
                    /\ UNCHANGED <<lastOp, lastRet>>
    /\ UNCHANGED <<kind, is_future, alive, wakeCount, sentCount, sendErr,
                   showCalled, takenBy>>

\* Future::poll up to its return or its blocking receive
Poll ==
    /\ cpc = "idle"
    /\ pollCalled' = TRUE
    /\ woken' = FALSE
    /\ IF ~is_future
       THEN /\ lastOp' = "poll"
            /\ lastRet' = Ret("Pending", NoVal)
            /\ UNCHANGED <<spawn, wpc, wwaker, res, senderAt, spawnCount, cpc>>
       ELSE /\ _show_dialog(TRUE)
            /\ IF spawn
               THEN /\ lastOp' = "poll"
                    /\ lastRet' = Ret("Pending", NoVal)
                    /\ cpc' = cpc
               ELSE /\ cpc' = "pollrecv"
                    /\ UNCHANGED <<lastOp, lastRet>>
    /\ UNCHANGED <<kind, is_future, chan, alive, wakeCount, sentCount, sendErr,
                   showCalled, takenBy>>

\* Poll::Ready(self.output.recv().unwrap())
PollRecvReturn ==
    /\ cpc = "pollrecv"
    /\ ChanRecvReady(chan, Connected)
    /\ LET r == ChanRecv(chan) IN
        /\ lastRet' = IF r.tag = "Ok" THEN Ret("Ready", r.val) ELSE Ret("Panic", NoVal)
        /\ chan' = ChanTake(chan)
        /\ takenBy' = IF r.tag = "Ok" THEN "poll" ELSE takenBy
    /\ lastOp' = "poll"
    /\ cpc' = "idle"
    /\ UNCHANGED <<kind, taskVars, senderAt, alive, workerVars, woken,
                   spawnCount, wakeCount, sentCount, sendErr, showCalled, pollCalled>>

\* The AsyncDialog is dropped: the Receiver goes, and with an untaken closure the Sender.
DropTask ==
    /\ cpc = "idle"
    /\ cpc' = "dropped"
    /\ alive' = FALSE
    /\ senderAt' = IF spawn THEN "dropped" ELSE senderAt
    /\ lastOp' = "drop"
    /\ lastRet' = Ret("Unit", NoVal)
    /\ UNCHANGED <<kind, taskVars, chan, workerVars, woken, histVars>>

----
\* The worker thread

\* message_box / open_dialog returns r
WorkerBody ==
    /\ wpc = "body"
    /\ \E r \in RawResults(kind) : res' = r
    /\ wpc' = "wake"
    /\ UNCHANGED <<kind, taskVars, chan, senderAt, alive, wwaker, cpc, woken,
                   lastOp, lastRet, histVars>>

\* the native call panics
WorkerPanic ==
    /\ wpc = "body"
    /\ wpc' = "unwind"
    /\ UNCHANGED <<kind, taskVars, chan, senderAt, alive, wwaker, res, cpc, woken,
                   lastOp, lastRet, histVars>>

\* Mutant of WorkerUnwind: the sender outlives the panicked thread.
WorkerUnwindKeepsSender ==
    /\ wpc = "unwind"
    /\ wpc' = "dead"
    /\ UNCHANGED <<kind, taskVars, chan, senderAt, alive, wwaker, res, cpc, woken,
                   lastOp, lastRet, histVars>>

\* Mutant of WorkerUnwind: the waker is woken while the panicked thread unwinds.
WorkerUnwindWakes ==
    /\ wpc = "unwind"
    /\ wpc' = "dead"
    /\ senderAt' = "dropped"
    /\ wakeCount' = IF wwaker THEN wakeCount + 1 ELSE wakeCount
    /\ woken' = (wwaker \/ woken)
    /\ UNCHANGED <<kind, taskVars, chan, alive, wwaker, res, cpc,
                   lastOp, lastRet, spawnCount, sentCount, sendErr, showCalled,
                   pollCalled, takenBy>>

\* unwinding drops the closure's captures: the waker, unwoken, and the sender
WorkerUnwind ==
    /\ wpc = "unwind"
    /\ wpc' = "dead"
    /\ senderAt' = "dropped"
    /\ UNCHANGED <<kind, taskVars, chan, alive, wwaker, res, cpc, woken,
                   lastOp, lastRet, histVars>>

\* Mutant of WorkerWake: the waker is dropped without being woken.
WorkerWakeDropped ==
    /\ wpc = "wake"
    /\ wpc' = "send"
    /\ UNCHANGED <<kind, taskVars, chan, senderAt, alive, wwaker, res, cpc, woken,
                   lastOp, lastRet, histVars>>

\* waker.map(|waker| waker.wake());
WorkerWake ==
    /\ wpc = "wake"
    /\ wpc' = "send"
    /\ wakeCount' = IF wwaker THEN wakeCount + 1 ELSE wakeCount
    /\ woken' = (wwaker \/ woken)
    /\ UNCHANGED <<kind, taskVars, chan, senderAt, alive, wwaker, res, cpc,
                   lastOp, lastRet, spawnCount, sentCount, sendErr, showCalled,
                   pollCalled, takenBy>>

\* Mutant of WorkerSend: a rendezvous channel (bounded(0)), the send waits for a receiver.
WorkerSendRendezvous ==
    /\ wpc = "send"
    /\ cpc \in {"recv", "pollrecv"} \/ ~alive
    /\ IF alive
       THEN /\ chan' = Append(chan, MapResult(kind, res))
            /\ sentCount' = sentCount + 1
            /\ UNCHANGED sendErr
       ELSE /\ sendErr' = TRUE
            /\ UNCHANGED <<chan, sentCount>>
    /\ wpc' = "exit"
    /\ UNCHANGED <<kind, taskVars, senderAt, alive, wwaker, res, cpc, woken,
                   lastOp, lastRet, spawnCount, wakeCount, showCalled, pollCalled,
                   takenBy>>

\* Mutant of WorkerSend: the waker is woken a second time after the send.
WorkerSendThenWake ==
    /\ wpc = "send"
    /\ Len(chan) < Cap \/ ~alive
    /\ IF alive
       THEN /\ chan' = Append(chan, MapResult(kind, res))
            /\ sentCount' = sentCount + 1
            /\ UNCHANGED sendErr
       ELSE /\ sendErr' = TRUE
            /\ UNCHANGED <<chan, sentCount>>
    /\ wakeCount' = IF wwaker THEN wakeCount + 1 ELSE wakeCount
    /\ woken' = (wwaker \/ woken)
    /\ wpc' = "exit"
    /\ UNCHANGED <<kind, taskVars, senderAt, alive, wwaker, res, cpc,
                   lastOp, lastRet, spawnCount, showCalled, pollCalled, takenBy>>

\* let _ = sender.send(map_result(res));
WorkerSend ==
    /\ wpc = "send"
    /\ Len(chan) < Cap \/ ~alive
    /\ IF alive
       THEN /\ chan' = Append(chan, MapResult(kind, res))
            /\ sentCount' = sentCount + 1
            /\ UNCHANGED sendErr
       ELSE /\ sendErr' = TRUE
            /\ UNCHANGED <<chan, sentCount>>
    /\ wpc' = "exit"
    /\ UNCHANGED <<kind, taskVars, senderAt, alive, wwaker, res, cpc, woken,
                   lastOp, lastRet, spawnCount, wakeCount, showCalled, pollCalled,
                   takenBy>>

\* Mutant of WorkerExit: the sender is leaked instead of dropped.
WorkerExitLeak ==
    /\ wpc = "exit"
    /\ wpc' = "done"
    /\ UNCHANGED <<kind, taskVars, chan, senderAt, alive, wwaker, res, cpc, woken,
                   lastOp, lastRet, histVars>>

\* the thread's closure returns and drops the sender
WorkerExit ==
    /\ wpc = "exit"
    /\ wpc' = "done"
    /\ senderAt' = "dropped"
    /\ UNCHANGED <<kind, taskVars, chan, alive, wwaker, res, cpc, woken,
                   lastOp, lastRet, histVars>>

Worker ==
    \/ WorkerBody
    \/ WorkerPanic
    \/ WorkerUnwind
    \/ WorkerWake
    \/ WorkerSend
    \/ WorkerExit

Next ==
    \/ TryRecv
    \/ RecvCall
    \/ RecvReturn
    \/ ShowDialog
    \/ Poll
    \/ PollRecvReturn
    \/ DropTask
    \/ WorkerBody
    \/ WorkerPanic
    \/ WorkerUnwind
    \/ WorkerWake
    \/ WorkerSend
    \/ WorkerExit

Spec == Init /\ [][Next]_vars

\* Threads are scheduled fairly and a blocked receive returns once it can.
FairSpec ==
    /\ Spec
    /\ WF_vars(Worker)
    /\ WF_vars(RecvReturn)
    /\ WF_vars(PollRecvReturn)

\* A scheduler driving the task as a Future: it polls once, and again after each wake.
\* A completed future is not polled again.
SchedPoll ==
    /\ ~pollCalled \/ woken
    /\ lastRet.tag # "Ready"
    /\ Poll

NextSched ==
    \/ SchedPoll
    \/ PollRecvReturn
    \/ WorkerBody
    \/ WorkerWake
    \/ WorkerSend
    \/ WorkerExit

\* The task driven only by the scheduler, its body returning, threads scheduled fairly.
SpecSched ==
    /\ Init
    /\ [][NextSched]_vars
    /\ WF_vars(SchedPoll)
    /\ WF_vars(PollRecvReturn)
    /\ WF_vars(WorkerBody)
    /\ WF_vars(WorkerWake)
    /\ WF_vars(WorkerSend)
    /\ WF_vars(WorkerExit)

----
\* Properties

\* C1: over any sequence of show_dialog, poll, try_recv and recv calls the spawn
\* closure is invoked at most once, so at most one worker thread is spawned.
C1_AtMostOneSpawn == spawnCount <= 1

\* The closure has run and both show_dialog and poll have been called since.
C1_Witness ==
    /\ spawnCount = 1
    /\ showCalled
    /\ pollCalled
    /\ lastOp \in {"recv", "try_recv"}

\* C2: until show_dialog or poll is called the closure is not invoked and no worker
\* thread exists, whatever try_recv calls are made.
C2_InertUntilTriggered ==
    (~showCalled /\ ~pollCalled) =>
        /\ spawnCount = 0
        /\ wpc = "none"
        /\ spawn
        /\ senderAt \in {"closure", "dropped"}

\* A try_recv has returned on a task never triggered: still no worker.
C2_Witness ==
    /\ ~showCalled
    /\ ~pollCalled
    /\ lastOp = "try_recv"
    /\ spawnCount = 0

\* C3: every try_recv on a task on which neither show_dialog nor poll has been
\* called returns Empty.
C3_TryRecvBeforeTriggerEmpty ==
    (lastOp = "try_recv" /\ ~showCalled /\ ~pollCalled) => lastRet = Ret("Empty", NoVal)

\* Such a try_recv has returned Empty.
C3_Witness ==
    /\ lastOp = "try_recv"
    /\ ~showCalled
    /\ ~pollCalled
    /\ lastRet.tag = "Empty"

\* C4: on a task on which show_dialog was called and whose body returned r, the
\* recv that is the first to receive (nothing was taken by try_recv before) returns
\* the value map_result(r) itself: an Err of the body arrives as that Err, not as
\* Disconnected.
C4_FirstRecvReturnsBodyResult ==
    [][(RecvReturn /\ showCalled /\ res # NoVal /\ takenBy = "none")
        => lastRet' = Ret("Value", MapResult(kind, res))]_vars

\* recv has returned the body's Err on a task started with show_dialog.
C4_Witness ==
    /\ showCalled
    /\ lastOp = "recv"
    /\ takenBy = "recv"
    /\ res = <<"Err", "IoFailure">>
    /\ lastRet = Ret("Value", <<"Err", "IoFailure">>)

\* C5: once a recv has returned the value, every later recv returns, and returns
\* Disconnected.
C5_LaterRecvDisconnected ==
    /\ [][(RecvReturn /\ takenBy = "recv") => lastRet' = Ret("Disconnected", NoVal)]_vars
    /\ (cpc = "recv" /\ takenBy = "recv")
          ~> (cpc = "idle" /\ lastOp = "recv" /\ lastRet = Ret("Disconnected", NoVal))

\* A recv after the one that took the value has returned Disconnected.
C5_Witness ==
    /\ takenBy = "recv"
    /\ lastOp = "recv"
    /\ cpc = "idle"
    /\ lastRet = Ret("Disconnected", NoVal)

\* C6 as stated: after recv has returned the value, try_recv returns Disconnected in
\* every interleaving with the worker.
C6_TryRecvAfterRecvDisconnected ==
    (lastOp = "try_recv" /\ takenBy = "recv") => lastRet = Ret("Disconnected", NoVal)

\* C6 amended: after recv has returned the value, try_recv never returns a value; it
\* returns Disconnected if the worker thread has finished (its sender is dropped)
\* and Empty if the worker has sent but not yet returned.
C6_TryRecvAfterRecv ==
    [][(TryRecv /\ takenBy = "recv")
        => lastRet' = IF wpc = "done" THEN Ret("Disconnected", NoVal)
                      ELSE Ret("Empty", NoVal)]_vars

\* try_recv after the receiving recv has returned Disconnected.
C6_Witness ==
    /\ takenBy = "recv"
    /\ lastOp = "try_recv"
    /\ wpc = "done"
    /\ lastRet = Ret("Disconnected", NoVal)

\* C7: every poll made after show_dialog returns Pending, never Ready.
C7_PollAfterShowPending ==
    (lastOp = "poll" /\ showCalled) => (cpc # "pollrecv" /\ lastRet = Ret("Pending", NoVal))

\* poll returned Pending although the worker is done and its value sits in the channel.
C7_Witness ==
    /\ showCalled
    /\ lastOp = "poll"
    /\ lastRet.tag = "Pending"
    /\ wpc = "done"
    /\ Len(chan) = 1

\* C8: driven only by a scheduler that polls once and re-polls on each wake, the
\* task eventually returns Ready with the body's value, and every poll before that
\* returns Pending.
C8_SchedulerGetsReady ==
    /\ <>(lastOp = "poll" /\ res # NoVal /\ lastRet = Ret("Ready", MapResult(kind, res)))
    /\ []((lastOp = "poll" /\ takenBy = "none") => lastRet = Ret("Pending", NoVal))
    /\ []((lastOp = "poll" /\ takenBy # "none")
            => (takenBy = "poll" /\ lastRet = Ret("Ready", MapResult(kind, res))))

\* The scheduler's second poll has returned Ready with the body's value.
C8_Witness ==
    /\ lastOp = "poll"
    /\ res # NoVal
    /\ wakeCount = 1
    /\ lastRet = Ret("Ready", MapResult(kind, res))

\* C9 as stated: whenever the wake handle has been invoked the value has already
\* been sent.
C9_WakeAfterSend == wakeCount > 0 => sentCount > 0

\* C10 as stated: a worker given a wake handle invokes it exactly once over its
\* lifetime; a worker given none never invokes one.
C10_WakeExactlyOnce ==
    /\ wakeCount <= 1
    /\ (~wwaker => wakeCount = 0)
    /\ ((wwaker /\ wpc \in {"done", "dead"}) => wakeCount = 1)

\* C10 amended: a worker given a wake handle invokes it at most once: exactly once
\* when the body returns (before the send), never when the body panics; a worker
\* given none never invokes one, also when poll is called later.
C10_WakeCount ==
    /\ wakeCount <= 1
    /\ (~wwaker => wakeCount = 0 /\ ~woken)
    /\ ((wwaker /\ wpc \in {"send", "exit", "done"}) => wakeCount = 1)
    /\ ((wwaker /\ wpc \in {"body", "wake", "unwind", "dead"}) => wakeCount = 0)

\* A worker dispatched by poll has finished and has woken its handle once.
C10_Witness ==
    /\ wwaker
    /\ wpc = "done"
    /\ wakeCount = 1

\* The worker's body has panicked.
Panicked == wpc \in {"unwind", "dead"}

\* C11: at most one value is ever sent, and over any sequence of try_recv, recv and
\* poll calls at most one call returns the body's value: a call returns a value only
\* if no earlier call has.
C11_DeliveredAtMostOnce ==
    /\ [](sentCount <= 1 /\ Len(chan) <= sentCount)
    /\ [][((TryRecv \/ RecvReturn \/ PollRecvReturn) /\ lastRet'.tag \in {"Value", "Ready"})
          => (takenBy = "none" /\ takenBy' # "none"
              /\ lastRet'.val = MapResult(kind, res))]_vars
    /\ [][takenBy # "none" => (takenBy' = takenBy /\ chan' = <<>>)]_vars

\* poll received the value and a later try_recv got none.
C11_Witness ==
    /\ takenBy = "poll"
    /\ sentCount = 1
    /\ lastOp = "try_recv"
    /\ lastRet.tag = "Disconnected"

\* C12: when the body panics on the worker thread no value is ever sent, every recv
\* returns, with Disconnected, and try_recv returns Disconnected once the worker has
\* unwound (Empty until then), never a value.
C12_PanicDisconnects ==
    /\ [](Panicked => (sentCount = 0 /\ chan = <<>> /\ takenBy = "none"))
    /\ [][Panicked => Panicked']_vars
    /\ [][(RecvReturn /\ Panicked) => lastRet' = Ret("Disconnected", NoVal)]_vars
    /\ [][(TryRecv /\ Panicked)
          => lastRet' = IF wpc = "dead" THEN Ret("Disconnected", NoVal)
                        ELSE Ret("Empty", NoVal)]_vars
    /\ (cpc = "recv" /\ Panicked)
          ~> (cpc = "idle" /\ lastOp = "recv" /\ lastRet = Ret("Disconnected", NoVal))

\* After a panic both recv and try_recv have reported Disconnected.
C12_Witness ==
    /\ wpc = "dead"
    /\ showCalled
    /\ lastOp = "try_recv"
    /\ lastRet = Ret("Disconnected", NoVal)

\* C13 as stated: a poll on an eligible task whose dispatch has occurred does a
\* blocking receive and returns Ready with the received value.
C13_EligiblePollReady ==
    /\ [][(Poll /\ is_future /\ ~spawn) => cpc' = "pollrecv"]_vars
    /\ [][PollRecvReturn => lastRet'.tag = "Ready"]_vars

\* C13 amended: such a poll never returns Pending: it does a blocking receive and
\* returns Ready with the value if one is received, and panics in the unwrap if the
\* channel is disconnected without one; a poll that returns Pending on an eligible
\* task is the one that performed the spawn.
C13_EligiblePollNeverPending ==
    /\ [][(Poll /\ is_future /\ ~spawn)
          => (cpc' = "pollrecv" /\ UNCHANGED <<lastOp, lastRet>>)]_vars
    /\ [][PollRecvReturn
          => lastRet' = IF Len(chan) > 0 THEN Ret("Ready", Head(chan))
                        ELSE Ret("Panic", NoVal)]_vars
    /\ [][(Poll /\ is_future /\ cpc' = "idle") => (spawn /\ ~spawn')]_vars
    /\ [](cpc = "pollrecv" => (is_future /\ ~spawn))

\* A second poll of an eligible task has returned Ready with the body's value.
C13_Witness ==
    /\ is_future
    /\ takenBy = "poll"
    /\ lastOp = "poll"
    /\ cpc = "idle"
    /\ lastRet = Ret("Ready", MapResult(kind, res))

\* C14: a poll on an ineligible task returns Pending and leaves the channel, the
\* dispatch guard and the eligibility flag unchanged; a sent value stays in the
\* channel through such polls and is what a later recv or try_recv returns.
C14_IneligiblePollFrame ==
    /\ [][(Poll /\ ~is_future)
          => (/\ UNCHANGED <<chan, spawn, is_future, senderAt, wpc, cpc, takenBy>>
              /\ lastRet' = Ret("Pending", NoVal))]_vars
    /\ []((~is_future /\ alive /\ sentCount = 1 /\ takenBy = "none")
            => chan = <<MapResult(kind, res)>>)
    /\ [][((TryRecv \/ RecvReturn) /\ Len(chan) > 0)
          => lastRet' = Ret("Value", Head(chan))]_vars

\* On a task dispatched by show_dialog and polled, recv has returned the value.
C14_Witness ==
    /\ ~wwaker
    /\ pollCalled
    /\ lastOp = "recv"
    /\ res # NoVal
    /\ lastRet = Ret("Value", MapResult(kind, res))

\* C15: once the body has returned the worker always terminates, whatever the
\* consumer does: its one send into the capacity-1 channel can always proceed, and
\* with the task dropped the send fails and the result is discarded.
C15_WorkerTerminates ==
    /\ (wpc \in {"wake", "send", "exit"}) ~> (wpc = "done")
    /\ [](wpc = "send" => ENABLED WorkerSend)
    /\ [][(WorkerSend /\ ~alive)
          => (sendErr' /\ chan' = chan /\ sentCount' = sentCount /\ wpc' = "exit")]_vars
    /\ [][wpc = "done" => wpc' = "done"]_vars

\* The task was dropped, the worker's send failed and the worker finished.
C15_Witness ==
    /\ ~alive
    /\ sendErr
    /\ sentCount = 0
    /\ wpc = "done"

\* C16: a recv on a task on which neither show_dialog nor poll was ever called never
\* returns: the sender stays in the untaken closure, so the channel stays empty and
\* connected while the caller is blocked.
C16_RecvUntriggeredBlocks ==
    /\ []((cpc = "recv" /\ ~showCalled /\ ~pollCalled)
            => (/\ ~ENABLED RecvReturn
                /\ chan = <<>>
                /\ spawn
                /\ senderAt = "closure"
                /\ wpc = "none"))
    /\ [][(cpc = "recv" /\ ~showCalled /\ ~pollCalled)
          => (cpc' = "recv" /\ ~showCalled' /\ ~pollCalled')]_vars

\* The consumer is blocked in recv on an untriggered task.
C16_Witness ==
    /\ cpc = "recv"
    /\ ~showCalled
    /\ ~pollCalled
    /\ spawnCount = 0

\* C17: is_future only goes from true to false, and every show_dialog call clears
\* it, spawning or not: after poll dispatched the task and show_dialog was called,
\* every poll returns Pending although the worker holds a wake handle, and the
\* value is received by recv or try_recv only.
C17_EligibilityOneWay ==
    /\ [][is_future' => is_future]_vars
    /\ [][ShowDialog => ~is_future']_vars
    /\ [](showCalled => ~is_future)
    /\ []((wwaker /\ showCalled /\ lastOp = "poll")
            => (cpc # "pollrecv" /\ lastRet = Ret("Pending", NoVal)))
    /\ [][(showCalled /\ takenBy' # takenBy) => takenBy' \in {"recv", "try_recv"}]_vars

\* Dispatched by poll, then show_dialog: the worker woke and finished, the value is
\* in the channel, and poll returned Pending.
C17_Witness ==
    /\ wwaker
    /\ showCalled
    /\ wakeCount = 1
    /\ wpc = "done"
    /\ Len(chan) = 1
    /\ lastOp = "poll"
    /\ lastRet = Ret("Pending", NoVal)

\* C18: when the body panics in a task dispatched by poll the wake handle is never
\* invoked, a later poll of the still eligible task blocks in the receive and then
\* fails in the unwrap, and no poll returns Ready.
C18_PanicPollFails ==
    /\ []((wwaker /\ Panicked) => (wakeCount = 0 /\ ~woken /\ takenBy = "none"))
    /\ [][(Poll /\ is_future /\ Panicked)
          => (cpc' = "pollrecv" /\ UNCHANGED <<lastOp, lastRet>>)]_vars
    /\ [][(PollRecvReturn /\ Panicked) => lastRet' = Ret("Panic", NoVal)]_vars
    /\ (cpc = "pollrecv" /\ Panicked)
          ~> (cpc = "idle" /\ lastOp = "poll" /\ lastRet = Ret("Panic", NoVal))

\* A poll after the panic of a poll-dispatched worker has failed in the unwrap.
C18_Witness ==
    /\ wwaker
    /\ is_future
    /\ wpc = "dead"
    /\ wakeCount = 0
    /\ lastOp = "poll"
    /\ lastRet = Ret("Panic", NoVal)

====
